---- MODULE Spec2Model ----
(***************************************************************************)
(* Model of the DNS server of MateuszGajo/dns: the header, question and    *)
(* answer codecs and the UDP receive loop of main.                         *)
(*                                                                         *)
(* A byte is a number in 0..255.  A Go string and a Go []byte are both     *)
(* sequences of bytes.  A Go slice is a record [vis, spare]: vis holds the *)
(* len(s) bytes the slice shows, spare the cap(s)-len(s) bytes of the      *)
(* backing array that lie behind them (a slice expression s[a:b] may reach *)
(* into spare, an index expression s[i] may not).                          *)
(***************************************************************************)
EXTENDS Integers, Sequences, FiniteSets

VARIABLES
    pc,       \* position of the process / stage of the codec under test
    buffer,   \* main: the receive buffer, reused by every iteration
    size,     \* main: the size ReadFromUDP returned last
    sent,     \* main: the bytes handed to WriteToUDP by the last iteration
    outcome,  \* main: what the last iteration did
    h,        \* codec: the Header under test
    q,        \* codec: the Question under test
    a,        \* codec: the Answer under test
    wire,     \* codec: the slice a marshal produced / an unmarshal is given
    ret       \* codec: what the last call returned

vars == <<pc, buffer, size, sent, outcome, h, q, a, wire, ret>>

(***************************************************************************)
(* Bounds of the model.                                                    *)
(***************************************************************************)
BufSize == 32      \* length of the receive buffer in the model
MaxNameLen == 3    \* short domain names: every string up to this length
MaxRawLen == 4     \* raw decoder inputs: every buffer up to this length
MaxSpare == 12     \* bytes of backing array behind a slice's length
MaxSegs == 2       \* dot-separated segments of an Answer's data

(***************************************************************************)
(* Bytes, characters and bit arithmetic.                                   *)
(***************************************************************************)
Dot == 46

RECURSIVE Pow2(_)
Pow2(n) == IF n = 0 THEN 1 ELSE 2 * Pow2(n - 1)

\* uint8 x << n: the bits shifted past bit 7 are lost
Shl8(x, n) == (x * Pow2(n)) % 256
\* x >> n
Shr(x, n) == x \div Pow2(n)

RECURSIVE BitOr(_, _)
BitOr(x, y) ==
    IF x = 0 THEN y
    ELSE IF y = 0 THEN x
    ELSE (IF x % 2 = 1 \/ y % 2 = 1 THEN 1 ELSE 0) + 2 * BitOr(x \div 2, y \div 2)

\* byte(v): conversion of an integer to uint8 keeps the low 8 bits
ToByte(v) == v % 256

\* binary.BigEndian.Uint16 of a 2 byte sequence
Uint16(b) == b[1] * 256 + b[2]

\* A uint32 is kept as its two 16 bit halves <<high, low>>: the numbers of
\* the model checker stop at 2^31 - 1.
U32(high, low) == <<high, low>>
\* binary.BigEndian.Uint32 of a 4 byte sequence
Uint32(b) == U32(b[1] * 256 + b[2], b[3] * 256 + b[4])

Fill(c, n) == [i \in 1..n |-> c]

Slice(bytes) == [vis |-> bytes, spare |-> <<>>]
Backing(data) == data.vis \o data.spare

(***************************************************************************)
(* Header                                                                  *)
(***************************************************************************)
Header(id, qr, opcode, aa, tc, rd, ra, z, rcode, qd, an, ns, ar) ==
    [ID |-> id, QR |-> qr, OPCODE |-> opcode, AA |-> aa, TC |-> tc, RD |-> rd,
     RA |-> ra, Z |-> z, RCODE |-> rcode,
     QDCOUNT |-> qd, ANCOUNT |-> an, NSCOUNT |-> ns, ARCOUNT |-> ar]

ZeroHeader == Header(0, 0, 0, 0, 0, 0, 0, 0, 0, 0, 0, 0, 0)

\* The slip a plausible bug would make: OPCODE shifted by 2 instead of 3.
HeaderFlagsByteBad(d) ==
    BitOr(BitOr(BitOr(BitOr(Shl8(d.QR, 7), Shl8(d.OPCODE, 2)), Shl8(d.AA, 2)),
                Shl8(d.TC, 1)), d.RD)

\* header[2] of Header.marshal
HeaderFlagsByte(d) ==
    BitOr(BitOr(BitOr(BitOr(Shl8(d.QR, 7), Shl8(d.OPCODE, 3)), Shl8(d.AA, 2)),
                Shl8(d.TC, 1)), d.RD)

\* header[3] of Header.marshal
HeaderCodeByte(d) == BitOr(BitOr(Shl8(d.RA, 7), Shl8(d.Z, 4)), d.RCODE)

\* func (d Header) marshal() []byte
HeaderMarshal(d) ==
    << ToByte(Shr(d.ID, 8)), ToByte(d.ID % 256),
       HeaderFlagsByte(d), HeaderCodeByte(d),
       ToByte(Shr(d.QDCOUNT, 8)), ToByte(d.QDCOUNT % 256),
       ToByte(Shr(d.ANCOUNT, 8)), ToByte(d.ANCOUNT % 256),
       ToByte(Shr(d.NSCOUNT, 8)), ToByte(d.NSCOUNT % 256),
       ToByte(Shr(d.ARCOUNT, 8)), ToByte(d.ARCOUNT % 256) >>

\* func unmarshalHeader(data []byte) (Header, error)
\* Z is assigned twice and RCODE never: the second assignment wins.
unmarshalHeader(data) ==
    IF Len(data) < 12
    THEN [header |-> ZeroHeader, err |-> "Invalid header size"]
    ELSE [header |->
            [ID |-> Uint16(SubSeq(data, 1, 2)),
             QR |-> Shr(data[3], 7),
             OPCODE |-> Shr(data[3], 3) % 16,
             AA |-> Shr(data[3], 2) % 2,
             TC |-> Shr(data[3], 1) % 2,
             RD |-> data[3] % 2,
             RA |-> Shr(data[4], 7),
             Z |-> data[4] % 16,
             RCODE |-> 0,
             QDCOUNT |-> Uint16(SubSeq(data, 5, 6)),
             ANCOUNT |-> Uint16(SubSeq(data, 7, 8)),
             NSCOUNT |-> Uint16(SubSeq(data, 9, 10)),
             ARCOUNT |-> Uint16(SubSeq(data, 11, 12))],
          err |-> "nil"]

(***************************************************************************)
(* Strings: strings.Split on ".", strconv.Atoi, strconv.Itoa               *)
(***************************************************************************)
\* strings.Split(s, "."): the pieces between the dots, in order; a string
\* with n dots has n + 1 pieces, and "" has the one piece "".
Split(s) ==
    LET dots == {i \in 1..Len(s) : s[i] = Dot}
        n == Cardinality(dots)
        dot(k) == IF k = 0 THEN 0
                  ELSE IF k = n + 1 THEN Len(s) + 1
                  ELSE CHOOSE i \in dots : Cardinality({j \in dots : j < i}) = k - 1
    IN  [k \in 1..(n + 1) |-> SubSeq(s, dot(k - 1) + 1, dot(k) - 1)]

IsDigit(c) == c \in 48..57

RECURSIVE DecValue(_)
DecValue(s) == IF s = <<>> THEN 0 ELSE 10 * DecValue(SubSeq(s, 1, Len(s) - 1)) + (s[Len(s)] - 48)

\* strconv.Atoi for strings short enough not to overflow an int: an optional
\* sign, then one or more decimal digits; anything else is an error.
Atoi(s) ==
    LET signed == s # <<>> /\ s[1] \in {43, 45}
        digits == IF signed THEN Tail(s) ELSE s
    IN  IF digits = <<>> \/ \E i \in 1..Len(digits) : ~IsDigit(digits[i])
        THEN [ok |-> FALSE, n |-> 0]
        ELSE [ok |-> TRUE,
              n |-> IF signed /\ s[1] = 45 THEN 0 - DecValue(digits) ELSE DecValue(digits)]

\* strconv.Itoa of a byte value
Itoa(n) ==
    IF n < 10 THEN <<48 + n>>
    ELSE IF n < 100 THEN <<48 + (n \div 10), 48 + (n % 10)>>
    ELSE <<48 + (n \div 100), 48 + ((n \div 10) % 10), 48 + (n % 10)>>

(***************************************************************************)
(* Domain names on the wire                                                *)
(***************************************************************************)
\* The label loop of Question.marshal and Answer.marshal: empty segments are
\* skipped, the length byte is byte(len(label)), no bound is checked.
RECURSIVE EncodeLabels(_)
EncodeLabels(labels) ==
    IF labels = <<>> THEN <<>>
    ELSE LET label == Head(labels)
         IN  (IF Len(label) = 0 THEN <<>> ELSE <<ToByte(Len(label))>> \o label)
             \o EncodeLabels(Tail(labels))

\* The label loop of unmarshalQuestion and unmarshalAnswer.  The loop test
\* looks at len(data); the label is cut out by a slice expression, which is
\* bounded by cap(data) and panics past it.  past records a read behind
\* len(data).
RECURSIVE NameLoop(_, _, _, _)
NameLoop(data, index, name, past) ==
    LET all == Backing(data)
    IN  IF Len(data.vis) > index /\ all[index + 1] # 0
        THEN LET length == all[index + 1]
                 sep == IF index # 0 THEN <<Dot>> ELSE <<>>
             IN  IF index + length + 1 > Len(all)
                 THEN [panic |-> TRUE, index |-> index, name |-> name, past |-> past]
                 ELSE NameLoop(data, index + length + 1,
                               name \o sep \o SubSeq(all, index + 2, index + length + 1),
                               past \/ index + length + 1 > Len(data.vis))
        ELSE [panic |-> FALSE, index |-> index, name |-> name, past |-> past]

(***************************************************************************)
(* Question                                                                *)
(***************************************************************************)
Question(name, type, class) ==
    [domainName |-> name, questionType |-> type, questionClass |-> class]

ZeroQuestion == Question(<<>>, 0, 0)

\* A plausible bug: the zero byte that ends the name is left out.
QuestionMarshalBad(question) ==
    EncodeLabels(Split(question.domainName))
    \o <<ToByte(Shr(question.questionType, 8)), ToByte(question.questionType % 256)>>
    \o <<ToByte(Shr(question.questionClass, 8)), ToByte(question.questionClass % 256)>>

\* func (question *Question) marshal() []byte
QuestionMarshal(question) ==
    EncodeLabels(Split(question.domainName)) \o <<0>>
    \o <<ToByte(Shr(question.questionType, 8)), ToByte(question.questionType % 256)>>
    \o <<ToByte(Shr(question.questionClass, 8)), ToByte(question.questionClass % 256)>>

\* func unmarshalQuestion(data []byte) (Question, int, error)
unmarshalQuestion(data) ==
    LET all == Backing(data)
        loop == NameLoop(data, 0, <<>>, FALSE)
        index == loop.index + 1
    IN  IF loop.panic \/ index + 4 > Len(all)
        THEN [panic |-> TRUE, question |-> ZeroQuestion, n |-> 0, err |-> "nil",
              past |-> loop.past]
        ELSE [panic |-> FALSE,
              question |-> Question(loop.name,
                                    Uint16(SubSeq(all, index + 1, index + 2)),
                                    Uint16(SubSeq(all, index + 3, index + 4))),
              n |-> index + 4,
              err |-> "nil",
              past |-> loop.past \/ index + 4 > Len(data.vis)]

(***************************************************************************)
(* Answer                                                                  *)
(***************************************************************************)
Answer(name, type, class, ttl, rdlength, data) ==
    [domainName |-> name, answerType |-> type, answerClass |-> class,
     TTL |-> ttl, RDLENGTH |-> rdlength, data |-> data]

ZeroAnswer == Answer(<<>>, 0, 0, U32(0, 0), 0, <<>>)

\* The RDATA loop of Answer.marshal: empty segments are skipped, a segment
\* Atoi rejects panics, every other value is cut to its low 8 bits.
RECURSIVE EncodeData(_)
EncodeData(segs) ==
    IF segs = <<>> THEN [panic |-> FALSE, bytes |-> <<>>]
    ELSE LET seg == Head(segs)
             rest == EncodeData(Tail(segs))
         IN  IF Len(seg) = 0 THEN rest
             ELSE IF ~Atoi(seg).ok THEN [panic |-> TRUE, bytes |-> <<>>]
             ELSE [panic |-> rest.panic,
                   bytes |-> IF rest.panic THEN <<>>
                             ELSE <<ToByte(Atoi(seg).n)>> \o rest.bytes]

\* func (answer *Answer) marshal() []byte
AnswerMarshal(answer) ==
    LET rdata == EncodeData(Split(answer.data))
    IN  IF rdata.panic THEN [panic |-> TRUE, bytes |-> <<>>]
        ELSE [panic |-> FALSE,
              bytes |->
                EncodeLabels(Split(answer.domainName)) \o <<0>>
                \o <<ToByte(Shr(answer.answerType, 8)), ToByte(answer.answerType % 256)>>
                \o <<ToByte(Shr(answer.answerClass, 8)), ToByte(answer.answerClass % 256)>>
                \o <<ToByte(Shr(answer.TTL[1], 8)), ToByte(answer.TTL[1] % 256),
                     ToByte(Shr(answer.TTL[2], 8) % 256), ToByte(answer.TTL[2] % 256)>>
                \o <<ToByte(Shr(answer.RDLENGTH, 8)), ToByte(answer.RDLENGTH % 256)>>
                \o rdata.bytes]

\* answer.data as the RDATA loop of unmarshalAnswer builds it
RECURSIVE DecodeData(_)
DecodeData(bytes) ==
    IF bytes = <<>> THEN <<>>
    ELSE IF Len(bytes) = 1 THEN Itoa(bytes[1])
    ELSE Itoa(bytes[1]) \o <<Dot>> \o DecodeData(Tail(bytes))

\* A plausible bug: the count returned leaves the RDATA out.
unmarshalAnswerBad(data) ==
    LET all == Backing(data)
        loop == NameLoop(data, 0, <<>>, FALSE)
        index == loop.index + 1
        rdlength == Uint16(SubSeq(all, index + 9, index + 10))
    IN  IF loop.panic \/ index + 10 > Len(all)
        THEN [panic |-> TRUE, answer |-> ZeroAnswer, n |-> 0, err |-> "nil",
              past |-> loop.past]
        ELSE IF rdlength > 0 /\ index + 10 + rdlength > Len(data.vis)
        THEN [panic |-> TRUE, answer |-> ZeroAnswer, n |-> 0, err |-> "nil",
              past |-> loop.past \/ index + 10 > Len(data.vis)]
        ELSE [panic |-> FALSE,
              answer |-> Answer(loop.name,
                                Uint16(SubSeq(all, index + 1, index + 2)),
                                Uint16(SubSeq(all, index + 3, index + 4)),
                                Uint32(SubSeq(all, index + 5, index + 8)),
                                rdlength,
                                DecodeData(SubSeq(all, index + 11, index + 10 + rdlength))),
              n |-> index + 10,
              err |-> "nil",
              past |-> loop.past \/ index + 10 > Len(data.vis)]

\* func unmarshalAnswer(data []byte) (Answer, int, error)
\* The fixed fields are cut out by slice expressions (bounded by cap), the
\* RDATA bytes are read by index expressions (bounded by len).
unmarshalAnswer(data) ==
    LET all == Backing(data)
        loop == NameLoop(data, 0, <<>>, FALSE)
        index == loop.index + 1
        rdlength == Uint16(SubSeq(all, index + 9, index + 10))
    IN  IF loop.panic \/ index + 10 > Len(all)
        THEN [panic |-> TRUE, answer |-> ZeroAnswer, n |-> 0, err |-> "nil",
              past |-> loop.past]
        ELSE IF rdlength > 0 /\ index + 10 + rdlength > Len(data.vis)
        THEN [panic |-> TRUE, answer |-> ZeroAnswer, n |-> 0, err |-> "nil",
              past |-> loop.past \/ index + 10 > Len(data.vis)]
        ELSE [panic |-> FALSE,
              answer |-> Answer(loop.name,
                                Uint16(SubSeq(all, index + 1, index + 2)),
                                Uint16(SubSeq(all, index + 3, index + 4)),
                                Uint32(SubSeq(all, index + 5, index + 8)),
                                rdlength,
                                DecodeData(SubSeq(all, index + 11, index + 10 + rdlength))),
              n |-> index + 10 + rdlength,
              err |-> "nil",
              past |-> loop.past \/ index + 10 > Len(data.vis)]

(***************************************************************************)
(* Inputs of the codec specification                                       *)
(***************************************************************************)
RECURSIVE SeqsUpTo(_, _)
SeqsUpTo(S, n) ==
    IF n = 0 THEN {<<>>}
    ELSE LET shorter == SeqsUpTo(S, n - 1)
         IN  shorter \cup {Append(s, c) : s \in {t \in shorter : Len(t) = n - 1}, c \in S}

\* Headers whose fields fit their bit widths
HeadersInWidth ==
    {Header(id, qr, opcode, aa, tc, rd, ra, z, rcode, c[1], c[2], c[3], c[4]) :
        id \in {0, 1234, 65535}, qr \in 0..1, opcode \in {0, 2, 15}, aa \in 0..1,
        tc \in 0..1, rd \in 0..1, ra \in 0..1, z \in {0, 5, 7}, rcode \in {0, 4, 15},
        c \in {<<0, 0, 0, 0>>, <<1, 1, 0, 0>>, <<258, 65535, 513, 4660>>}}

\* Headers with one uint8 field wider than its bit field
HeadersWide ==
    {[ZeroHeader EXCEPT ![f] = v] :
        f \in {"QR", "OPCODE", "AA", "TC", "RD", "RA", "Z", "RCODE"},
        v \in {2, 16, 255}}

HeaderInputs == HeadersInWidth \cup HeadersWide

\* Names: every string over 'a', 'b', '.' up to MaxNameLen bytes, and names
\* with a label around the 63 byte limit and around the 255 byte limit of
\* the length byte.
ShortNames == SeqsUpTo({97, 98, Dot}, MaxNameLen)
LongNames ==
    {Fill(97, n) : n \in {62, 63, 64, 65, 255, 256}}
    \cup {<<98, Dot>> \o Fill(97, n) \o <<Dot, 98>> : n \in {63, 64}}
Names == ShortNames \cup LongNames

QuestionInputs ==
    {Question(name, type, class) :
        name \in Names, type \in {0, 1, 65535}, class \in {1, 258}}

\* Data strings: up to MaxSegs segments joined by dots
Segments ==
    { <<>>, <<48>>, <<50, 53, 53>>, <<50, 53, 54>>,
      <<45, 49>>, <<43, 53>>, <<48, 56>>, <<120>> }

RECURSIVE JoinDots(_)
JoinDots(segs) ==
    IF segs = <<>> THEN <<>>
    ELSE IF Len(segs) = 1 THEN segs[1]
    ELSE segs[1] \o <<Dot>> \o JoinDots(Tail(segs))

DataStrings ==
    {JoinDots(segs) : segs \in SeqsUpTo(Segments, MaxSegs)}
    \cup {<<56, Dot, 56, Dot, 56, Dot, 56>>}

AnswerInputs ==
    {Answer(name, 1, class, ttl, rdlength, data) :
        name \in {<<>>, <<97, Dot, 98>>, Fill(97, 63)},
        class \in {1, 258}, ttl \in {U32(0, 60), U32(258, 772), U32(65535, 65535)},
        rdlength \in {0, 1, 2, 4, 5}, data \in DataStrings}

\* Slices handed to the decoders as they come: what the slice shows, and the
\* backing array behind it filled with zeros or with bytes left there.
RawBuffers ==
    {[vis |-> vis, spare |-> Fill(c, k)] :
        vis \in SeqsUpTo({0, 1, 2, 97}, MaxRawLen), c \in {0, 1, 97}, k \in 0..MaxSpare}

(***************************************************************************)
(* The codec specification: one value is drawn, marshalled and unmarshalled *)
(* again, or a raw buffer is drawn and unmarshalled.                       *)
(***************************************************************************)
NoRet == [panic |-> FALSE]

IdleServer ==
    /\ buffer = <<>>
    /\ size = 0
    /\ sent = <<>>
    /\ outcome = "none"

CodecInit ==
    /\ IdleServer
    /\ ret = NoRet
    /\ \/ /\ pc = "header"
          /\ h \in HeaderInputs /\ q = ZeroQuestion /\ a = ZeroAnswer
          /\ wire = Slice(<<>>)
       \/ /\ pc = "question"
          /\ h = ZeroHeader /\ q \in QuestionInputs /\ a = ZeroAnswer
          /\ wire = Slice(<<>>)
       \/ /\ pc = "answer"
          /\ h = ZeroHeader /\ q = ZeroQuestion /\ a \in AnswerInputs
          /\ wire = Slice(<<>>)
       \/ /\ pc = "raw"
          /\ h = ZeroHeader /\ q = ZeroQuestion /\ a = ZeroAnswer
          /\ wire \in RawBuffers

\* bytes := header.marshal()    (make([]byte, 12): no spare capacity)
CallHeaderMarshal ==
    /\ pc = "header"
    /\ wire' = Slice(HeaderMarshal(h))
    /\ pc' = "header_marshalled"
    /\ UNCHANGED <<buffer, size, sent, outcome, h, q, a, ret>>

\* header, err := unmarshalHeader(data)
CallUnmarshalHeader ==
    /\ pc \in {"header_marshalled", "raw"}
    /\ ret' = unmarshalHeader(wire.vis)
    /\ pc' = IF pc = "raw" THEN "raw_header" ELSE "header_unmarshalled"
    /\ UNCHANGED <<buffer, size, sent, outcome, h, q, a, wire>>

\* bytes := question.marshal()  (append leaves no capacity behind the
\* result, or MaxSpare zeroed bytes of it)
CallQuestionMarshal ==
    /\ pc = "question"
    /\ \E k \in {0, MaxSpare} :
          wire' = [vis |-> QuestionMarshal(q), spare |-> Fill(0, k)]
    /\ pc' = "question_marshalled"
    /\ UNCHANGED <<buffer, size, sent, outcome, h, q, a, ret>>

\* question, bytesRead, err := unmarshalQuestion(data)
CallUnmarshalQuestion ==
    /\ pc \in {"question_marshalled", "raw"}
    /\ ret' = unmarshalQuestion(wire)
    /\ pc' = IF pc = "raw" THEN "raw_question" ELSE "question_unmarshalled"
    /\ UNCHANGED <<buffer, size, sent, outcome, h, q, a, wire>>

\* bytes := answer.marshal()
CallAnswerMarshal ==
    /\ pc = "answer"
    /\ LET r == AnswerMarshal(a)
       IN  IF r.panic
           THEN /\ pc' = "answer_panic"
                /\ wire' = wire
           ELSE /\ pc' = "answer_marshalled"
                /\ \E k \in {0, MaxSpare} :
                      wire' = [vis |-> r.bytes, spare |-> Fill(0, k)]
    /\ UNCHANGED <<buffer, size, sent, outcome, h, q, a, ret>>

\* answer, bytesRead, err := unmarshalAnswer(data)
CallUnmarshalAnswer ==
    /\ pc \in {"answer_marshalled", "raw"}
    /\ ret' = unmarshalAnswer(wire)
    /\ pc' = IF pc = "raw" THEN "raw_answer" ELSE "answer_unmarshalled"
    /\ UNCHANGED <<buffer, size, sent, outcome, h, q, a, wire>>

CodecNext ==
    \/ CallHeaderMarshal
    \/ CallUnmarshalHeader
    \/ CallQuestionMarshal
    \/ CallUnmarshalQuestion
    \/ CallAnswerMarshal
    \/ CallUnmarshalAnswer

CodecSpec == CodecInit /\ [][CodecNext]_vars

(***************************************************************************)
(* The server: main                                                        *)
(***************************************************************************)
DNSResponse(header, question, answer) ==
    [header |-> header, question |-> question, answer |-> answer]

RECURSIVE MarshalQuestions(_)
MarshalQuestions(questions) ==
    IF questions = <<>> THEN <<>>
    ELSE QuestionMarshal(Head(questions)) \o MarshalQuestions(Tail(questions))

RECURSIVE MarshalAnswers(_)
MarshalAnswers(answers) ==
    IF answers = <<>> THEN [panic |-> FALSE, bytes |-> <<>>]
    ELSE LET first == AnswerMarshal(Head(answers))
             rest == MarshalAnswers(Tail(answers))
         IN  [panic |-> first.panic \/ rest.panic,
              bytes |-> IF first.panic \/ rest.panic THEN <<>>
                        ELSE first.bytes \o rest.bytes]

\* func (dnsResponse *DNSResponse) build() []byte
build(dnsResponse) ==
    LET header == [dnsResponse.header EXCEPT
                      !.QDCOUNT = Len(dnsResponse.question) % 65536,
                      !.ANCOUNT = Len(dnsResponse.answer) % 65536]
        answers == MarshalAnswers(dnsResponse.answer)
    IN  [panic |-> answers.panic,
         bytes |-> IF answers.panic THEN <<>>
                   ELSE HeaderMarshal(header)
                        \o MarshalQuestions(dnsResponse.question)
                        \o answers.bytes]

\* A plausible bug: RCODE is left at 0 whatever the OPCODE.
ResponseHeaderBad(recivedHeader) ==
    [ZeroHeader EXCEPT
        !.ID = recivedHeader.ID,
        !.QR = 1,
        !.RD = recivedHeader.RD,
        !.OPCODE = recivedHeader.OPCODE]

\* main: the Header literal of the reply and the RCODE set after it
ResponseHeader(recivedHeader) ==
    [ZeroHeader EXCEPT
        !.ID = recivedHeader.ID,
        !.QR = 1,
        !.RD = recivedHeader.RD,
        !.OPCODE = recivedHeader.OPCODE,
        !.RCODE = IF recivedHeader.OPCODE = 0 THEN 0 ELSE 4]

\* "8.8.8.8"
FixedData == <<56, Dot, 56, Dot, 56, Dot, 56>>

\* main: the DNSResponse built from what was decoded
Response(recivedHeader, recivedQuestion) ==
    DNSResponse(ResponseHeader(recivedHeader),
                <<Question(recivedQuestion.domainName, 1, 1)>>,
                <<Answer(recivedQuestion.domainName, 1, 1, U32(0, 60), 4, FixedData)>>)

\* data[low:] of a slice: the bytes from low on, with the same backing array
SliceFrom(data, low) ==
    [vis |-> SubSeq(data.vis, low + 1, Len(data.vis)), spare |-> data.spare]

\* main: recivedData := buffer[:size]
RecivedData == [vis |-> SubSeq(buffer, 1, size), spare |-> SubSeq(buffer, size + 1, Len(buffer))]

\* main: one pass of the loop body after ReadFromUDP, up to response.build().
\* recivedData[12:] and recivedData[12+readBytes:] panic when the low bound
\* lies behind len(recivedData); the error of unmarshalHeader is overwritten
\* and the one tested is unmarshalAnswer's, which is always nil.
Process(recivedData) ==
    LET recivedHeader == unmarshalHeader(recivedData.vis).header
        question == unmarshalQuestion(SliceFrom(recivedData, 12))
        answer == unmarshalAnswer(SliceFrom(recivedData, 12 + question.n))
    IN  IF Len(recivedData.vis) < 12 THEN [panic |-> TRUE, bytes |-> <<>>]
        ELSE IF question.panic THEN [panic |-> TRUE, bytes |-> <<>>]
        ELSE IF 12 + question.n > Len(recivedData.vis) THEN [panic |-> TRUE, bytes |-> <<>>]
        ELSE IF answer.panic THEN [panic |-> TRUE, bytes |-> <<>>]
        ELSE build(Response(recivedHeader, question.question))

\* Datagrams the network may deliver
QueryHeaders ==
    {HeaderMarshal(Header(id, f, opcode, f, f, rd, f, 7 * f, 15 * f, 1, 0, 0, 0)) :
        id \in {1234, 65535}, opcode \in {0, 2, 15}, rd \in 0..1, f \in 0..1}

QueryBodies ==
    { <<>>,
      <<0, 0, 1, 0, 1>>,
      <<1, 97, 0, 0, 1, 0, 1>>,
      <<1, Dot, 0, 0, 1, 0, 1>>,
      <<3, 97>>,
      <<1, 97, 0, 0, 1, 0, 1>> \o <<0, 0, 1, 0, 1, 0, 0, 0, 60, 0, 1, 8>>,
      <<1, 97, 0, 0, 1, 0, 1>> \o Fill(7, BufSize - 17) }

Datagrams ==
    {<<>>, <<4, 210, 128>>, Fill(1, 11)}
    \cup {hdr \o body : hdr \in QueryHeaders, body \in QueryBodies}

IdleCodec ==
    /\ h = ZeroHeader
    /\ q = ZeroQuestion
    /\ a = ZeroAnswer
    /\ wire = Slice(<<>>)
    /\ ret = NoRet

\* The process before main runs: buffer := make([]byte, 2048) is zeroed.
Init ==
    /\ pc = "start"
    /\ buffer = Fill(0, BufSize)
    /\ size = 0
    /\ sent = <<>>
    /\ outcome = "none"
    /\ IdleCodec

\* main: ResolveUDPAddr and ListenUDP; either may fail, and log.Fatal exits.
Startup ==
    /\ pc = "start"
    /\ \/ pc' = "listen" /\ outcome' = outcome
       \/ pc' = "exit" /\ outcome' = "resolve_failed"
       \/ pc' = "exit" /\ outcome' = "listen_failed"
    /\ UNCHANGED <<buffer, size, sent, h, q, a, wire, ret>>

\* conn.ReadFromUDP(buffer): the datagram is copied over the start of the
\* buffer, cut to the buffer's length; the rest of the buffer keeps its bytes.
ReadFromUDP ==
    /\ pc = "listen"
    /\ \E d \in Datagrams :
          LET n == IF Len(d) > Len(buffer) THEN Len(buffer) ELSE Len(d)
          IN  /\ buffer' = [i \in 1..Len(buffer) |-> IF i <= n THEN d[i] ELSE buffer[i]]
              /\ size' = n
    /\ pc' = "received"
    /\ UNCHANGED <<sent, outcome, h, q, a, wire, ret>>

\* conn.ReadFromUDP fails: log.Fatal exits.
ReadFails ==
    /\ pc = "listen"
    /\ pc' = "exit"
    /\ outcome' = "read_failed"
    /\ UNCHANGED <<buffer, size, sent, h, q, a, wire, ret>>

\* The loop body after a successful read: decode, build, WriteToUDP.  A
\* failed write is printed and the loop goes on.
Respond ==
    /\ pc = "received"
    /\ LET r == Process(RecivedData)
       IN  IF r.panic
           THEN /\ pc' = "panic"
                /\ outcome' = "panic"
                /\ sent' = sent
           ELSE /\ pc' = "listen"
                /\ \/ outcome' = "replied" /\ sent' = r.bytes
                   \/ outcome' = "send_failed" /\ sent' = sent
    /\ UNCHANGED <<buffer, size, h, q, a, wire, ret>>

Next ==
    \/ Startup
    \/ ReadFromUDP
    \/ ReadFails
    \/ Respond

Spec == Init /\ [][Next]_vars

(***************************************************************************)
(* Properties                                                              *)
(***************************************************************************)
\* Every field of the header fits the bit field the wire format gives it.
FitsWidths(d) ==
    /\ d.ID \in 0..65535
    /\ d.QR \in 0..1 /\ d.AA \in 0..1 /\ d.TC \in 0..1 /\ d.RD \in 0..1 /\ d.RA \in 0..1
    /\ d.OPCODE \in 0..15 /\ d.RCODE \in 0..15 /\ d.Z \in 0..7
    /\ d.QDCOUNT \in 0..65535 /\ d.ANCOUNT \in 0..65535
    /\ d.NSCOUNT \in 0..65535 /\ d.ARCOUNT \in 0..65535

\* The name is a dot-joined sequence of labels of 1 to 63 bytes: no dot at
\* either end, no two dots in a row, no 64 bytes in a row without a dot.
ValidName(name) ==
    /\ \A i \in 1..Len(name) :
          name[i] = Dot => (i > 1 /\ i < Len(name) /\ name[i + 1] # Dot)
    /\ \A i \in 1..(Len(name) - 63) : \E j \in i..(i + 63) : name[j] = Dot

\* Bytes a valid name takes on the wire: a length byte per label, the label
\* bytes, the zero byte.
NameBytes(name) == IF name = <<>> THEN 1 ELSE Len(name) + 2

\* C1: for every Header whose fields fit their bit widths,
\* unmarshalHeader(h.marshal()) returns no error and a Header equal to h in
\* every field, RCODE and Z included.
C1_HeaderRoundTrip ==
    (pc = "header_unmarshalled" /\ FitsWidths(h)) =>
        (ret.err = "nil" /\ ret.header = h)

\* C2: no received datagram ends the process: whatever the datagram, the
\* loop body never panics and the process goes on to the next read.
C2_DatagramNeverStopsServer == pc # "panic"

\* C3: for every Question with a valid name, unmarshalQuestion(q.marshal())
\* returns q, no error, and a count equal to the length of the encoded
\* bytes, which is the name's bytes plus 4.
C3_QuestionRoundTrip ==
    (pc = "question_unmarshalled" /\ ValidName(q.domainName)) =>
        /\ ~ret.panic
        /\ ret.err = "nil"
        /\ ret.question = q
        /\ ret.n = Len(wire.vis)
        /\ ret.n = NameBytes(q.domainName) + 4

C3_Witness ==
    /\ pc = "question_unmarshalled"
    /\ q.domainName = <<98, Dot>> \o Fill(97, 63) \o <<Dot, 98>>
    /\ q.questionType = 65535
    /\ ret.question = q
    /\ ret.n = 73

\* A dotted string of canonical decimal octets: every piece between dots is
\* 1 to 3 digits, has no leading zero, and is at most 255.
IsCanonicalOctet(seg) ==
    /\ Len(seg) \in 1..3
    /\ \A i \in 1..Len(seg) : IsDigit(seg[i])
    /\ Len(seg) > 1 => seg[1] # 48
    /\ DecValue(seg) <= 255

CanonicalData(data) ==
    data = <<>> \/ \A k \in DOMAIN Split(data) : IsCanonicalOctet(Split(data)[k])

NumOctets(data) == IF data = <<>> THEN 0 ELSE Len(Split(data))

\* C4: for every Answer with a valid name, canonical data and RDLENGTH equal
\* to the number of octets, unmarshalAnswer(a.marshal()) returns a, and a
\* count equal to the name's bytes + 10 + RDLENGTH, the whole encoded length.
C4_AnswerRoundTrip ==
    (/\ pc = "answer_unmarshalled"
     /\ ValidName(a.domainName)
     /\ CanonicalData(a.data)
     /\ a.RDLENGTH = NumOctets(a.data)) =>
        /\ ~ret.panic
        /\ ret.err = "nil"
        /\ ret.answer = a
        /\ ret.n = NameBytes(a.domainName) + 10 + a.RDLENGTH
        /\ ret.n = Len(wire.vis)

C4_Witness ==
    /\ pc = "answer_unmarshalled"
    /\ a.domainName = <<97, Dot, 98>>
    /\ a.data = FixedData
    /\ a.RDLENGTH = 4
    /\ a.TTL = U32(65535, 65535)
    /\ ret.answer = a
    /\ ret.n = 19

\* C5: in the bytes Answer.marshal produces, the RDLENGTH field equals the
\* number of RDATA bytes behind it, whatever the RDLENGTH field of the struct.
C5_RdlengthRecomputed ==
    pc = "answer_marshalled" =>
        LET fixed == Len(EncodeLabels(Split(a.domainName))) + 1 + 10
        IN  Uint16(SubSeq(wire.vis, fixed - 1, fixed)) = Len(wire.vis) - fixed

\* Some label of the buffer declares more bytes than the buffer holds behind
\* its length byte.
RECURSIVE HasTruncatedLabel(_, _)
HasTruncatedLabel(bytes, index) ==
    /\ index < Len(bytes)
    /\ bytes[index + 1] # 0
    /\ \/ index + 1 + bytes[index + 1] > Len(bytes)
       \/ HasTruncatedLabel(bytes, index + 1 + bytes[index + 1])

\* C6: given a buffer with a truncated label, the decoders return the error
\* TruncatedLabel: they do not panic, and they read nothing behind the end
\* of the buffer.
C6_TruncatedLabelRejected ==
    (pc \in {"raw_question", "raw_answer"} /\ HasTruncatedLabel(wire.vis, 0)) =>
        (ret.err = "TruncatedLabel" /\ ~ret.panic /\ ~ret.past)

\* Some label of the name is 64 bytes or longer.
HasLongLabel(name) ==
    \E k \in DOMAIN Split(name) : Len(Split(name)[k]) >= 64

\* C7: encoding a name succeeds when no label is longer than 63 bytes, and
\* fails, with no bytes produced, when one is 64 bytes or longer.
C7_LabelBoundEnforced ==
    pc = "question_marshalled" =>
        IF HasLongLabel(q.domainName)
        THEN wire.vis = <<>>
        ELSE Len(wire.vis) >= 5

\* The segment is not the text of an integer in 0..255.
BadSegment(seg) ==
    LET digits == IF seg[1] = 43 THEN Tail(seg) ELSE seg
    IN  \/ digits = <<>>
        \/ \E i \in 1..Len(digits) : ~IsDigit(digits[i])
        \/ DecValue(digits) > 255

HasBadSegment(data) ==
    \E k \in DOMAIN Split(data) : Split(data)[k] # <<>> /\ BadSegment(Split(data)[k])

\* C8: Answer.marshal fails whenever a segment of data is not an integer in
\* 0..255; it returns no bytes for such data.
C8_BadSegmentRejected ==
    (pc \in {"answer_marshalled", "answer_panic"} /\ HasBadSegment(a.data)) =>
        pc = "answer_panic"

\* The name the loop body decodes from the datagram in the buffer
QueryName == unmarshalQuestion(SliceFrom(RecivedData, 12)).question.domainName

C10_HeaderLayout ==
    pc = "header_marshalled" =>
        /\ Len(wire.vis) = 12
        /\ FitsWidths(h) =>
              wire.vis = << h.ID \div 256, h.ID % 256,
                            128 * h.QR + 8 * h.OPCODE + 4 * h.AA + 2 * h.TC + h.RD,
                            128 * h.RA + 16 * h.Z + h.RCODE,
                            h.QDCOUNT \div 256, h.QDCOUNT % 256,
                            h.ANCOUNT \div 256, h.ANCOUNT % 256,
                            h.NSCOUNT \div 256, h.NSCOUNT % 256,
                            h.ARCOUNT \div 256, h.ARCOUNT % 256 >>

C10_Witness ==
    /\ pc = "header_marshalled"
    /\ h = [ZeroHeader EXCEPT !.ID = 1234, !.QR = 1]
    /\ wire.vis = <<4, 210, 128, 0, 0, 0, 0, 0, 0, 0, 0, 0>>

\* main: recivedData as the first pass of the loop sees the same datagram,
\* in the buffer make([]byte, 2048) left zeroed
FreshData == [vis |-> SubSeq(buffer, 1, size), spare |-> Fill(0, Len(buffer) - size)]

\* C11: what the loop does with a datagram (the reply bytes it sends, or the
\* end of the process) depends on the datagram's bytes alone: after any
\* earlier datagrams it is what it is for the same datagram received first,
\* in the zeroed buffer.
C11_OutcomeIndependentOfHistory ==
    (pc \in {"listen", "panic"} /\ outcome \in {"replied", "panic"}) =>
        LET first == Process(FreshData)
        IN  /\ (outcome = "panic") = first.panic
            /\ outcome = "replied" => sent = first.bytes

====
